---- MODULE Spec2Model ----
(***************************************************************************)
(* Model of the realtime voice session of Studio-Agent                     *)
(* (src/components/LiveAgent.tsx): the React state and refs of LiveAgent,  *)
(* startSession, stopAudio, and the callbacks handed to ai.live.connect    *)
(* (onopen, onmessage, onclose, onerror), the capture tap                  *)
(* (onaudioprocess) and the 'ended' listener of a playback source.         *)
(*                                                                         *)
(* The host is a single-threaded event loop: every action below is one     *)
(* task (one callback run to its end, or run to its next await).           *)
(***************************************************************************)
EXTENDS Integers, Sequences, FiniteSets, TLC

(* ---------------------------- bounds ----------------------------------- *)
\* SpecEnergy: the Energy Sample 1.0 in fixed-point units, the epsilon of
\* "within epsilon of 0" (0.01) in those units, and the number of silent
\* frames explored (0.9^44 < 0.01)
EnergyOne == 1000
EnergyEps == 10
SettleFrames == 44
\* SpecLevel: number of tap callbacks and samples per block explored
MaxLevelTaps == 4
LevelBlock == 2

\* number of startSession invocations explored
MaxSessions == 2
\* number of inbound channel messages explored (all sessions together)
MaxMsgs == 3
\* largest value of an output clock (AudioContext.currentTime) explored
MaxClock == 2
\* number of capture-tap callbacks explored
MaxTaps == 2
\* number of events (callbacks run, clock ticks) explored in one behaviour
MaxSteps == 8
\* SpecPlay: largest value of the output clock explored
PlayMaxClock == 3

Sessions == 1..MaxSessions

\* durations of decoded audio buffers (audioBuffer.duration), in clock units
DurSet == {1, 2}
\* rms values of a captured block, in fixed-point units of 1/4
RmsSet == {0, 4}

Max(a, b) == IF a >= b THEN a ELSE b

VARIABLES
  mounted,            \* the LiveAgent component is mounted
  connected,          \* useState connected
  error,              \* useState error: "null" or the message shown
  volume,             \* useState volume (the Energy Sample), fixed point
  audioContextRef,    \* 0 = null, else the id of the output AudioContext
  inputContextRef,    \* 0 = null, else the id of the input AudioContext
  streamRef,          \* 0 = null, else the id of the MediaStream
  processorRef,       \* 0 = null, else the id of the ScriptProcessorNode
  sourceRef,          \* 0 = null, else the id of the MediaStreamSource
  nextStartTimeRef,   \* nextStartTimeRef.current
  activeSourcesRef,   \* ids of the sources in activeSourcesRef.current
  sessionPromiseRef,  \* 0 = null, else the session whose promise it holds
  pc,                 \* position of each startSession invocation
  outputNode,         \* per invocation: context of its outputNode (0 = none)
  chan,               \* per invocation: state of its channel
  promise,            \* per invocation: state of the promise of connect
  ctxOutClosed,       \* output contexts that were closed
  ctxInClosed,        \* input contexts that were closed
  clock,              \* currentTime of each output context
  stream,             \* per invocation: state of the MediaStream it got
  tapState,           \* per invocation: state of the tap its onopen built
  tapCtx,             \* per invocation: input context its tap lives on
  handlers,           \* onmessage invocations suspended at await decode
  sched,              \* the sources on which start() was called, in order
  msgCount,           \* number of messages delivered so far
  intrCount,          \* number of interruptions carried out so far
  fresh,              \* no audio chunk arrived since the last interruption
  tapCount,           \* number of tap callbacks run so far
  sent,               \* per invocation: payloads sent on its channel
  pendingThen,        \* per invocation: then-callbacks waiting on its promise
  thrown,             \* handlers out of which an error escaped
  steps,              \* number of events handled so far
  framer,             \* SpecFramer: one block on its way through the framer
  vis,                \* SpecVisual: the repaint loop of the visualizer
  chat,               \* SpecChat: the state of ChatAgent
  studio              \* SpecStudio: the state of CreativeStudio

vars == <<mounted, connected, error, volume, audioContextRef, inputContextRef,
          streamRef, processorRef, sourceRef, nextStartTimeRef,
          activeSourcesRef, sessionPromiseRef, pc, outputNode, chan, promise,
          ctxOutClosed, ctxInClosed, clock, stream, tapState, tapCtx,
          handlers, sched, msgCount, intrCount, fresh, tapCount, sent,
          pendingThen, thrown, steps, framer, vis, chat, studio>>

\* the state of LiveAgent: everything but the framer's block
liveVars == <<mounted, connected, error, volume, audioContextRef,
              inputContextRef, streamRef, processorRef, sourceRef,
              nextStartTimeRef, activeSourcesRef, sessionPromiseRef, pc,
              outputNode, chan, promise, ctxOutClosed, ctxInClosed, clock,
              stream, tapState, tapCtx, handlers, sched, msgCount, intrCount,
              fresh, tapCount, sent, pendingThen, thrown, steps>>

\* what stopAudio writes
teardownVars == <<processorRef, sourceRef, streamRef, stream, inputContextRef,
                  ctxInClosed, tapState, sched, activeSourcesRef,
                  audioContextRef, ctxOutClosed, connected, volume, thrown>>

\* everything of the playback scheduler that stopAudio does not write
playVars == <<nextStartTimeRef, handlers, msgCount, intrCount, fresh>>

\* everything of the capture pipe that stopAudio does not write
capVars == <<tapCtx, tapCount, sent, pendingThen>>

(* ---------------------------- Init ------------------------------------- *)
\* the state of LiveAgent after its first render, the Energy Sample apart
InitRefs ==
  /\ mounted = TRUE
  /\ connected = FALSE
  /\ error = "null"
  /\ audioContextRef = 0
  /\ inputContextRef = 0
  /\ streamRef = 0
  /\ processorRef = 0
  /\ sourceRef = 0
  /\ nextStartTimeRef = 0
  /\ activeSourcesRef = {}
  /\ sessionPromiseRef = 0
  /\ pc = [k \in Sessions |-> "idle"]
  /\ outputNode = [k \in Sessions |-> 0]
  /\ chan = [k \in Sessions |-> "none"]
  /\ promise = [k \in Sessions |-> "none"]
  /\ ctxOutClosed = {}
  /\ ctxInClosed = {}
  /\ clock = [k \in Sessions |-> 0]
  /\ stream = [k \in Sessions |-> "none"]
  /\ tapState = [k \in Sessions |-> "none"]
  /\ tapCtx = [k \in Sessions |-> 0]
  /\ handlers = {}
  /\ sched = <<>>
  /\ msgCount = 0
  /\ intrCount = 0
  /\ fresh = FALSE
  /\ tapCount = 0
  /\ sent = [k \in Sessions |-> <<>>]
  /\ pendingThen = [k \in Sessions |-> <<>>]
  /\ thrown = {}
  /\ steps = 0

\* no block is in the framer
FramerIdle == [pc |-> "idle", block |-> <<>>, payload |-> <<>>, out |-> <<>>]

\* the visualizer effect ran once at mount (lines 27-76): render() painted
\* and requested frame 1.  eff numbers the runs of the effect, frameId is
\* animationFrameId of the current run, firstId the first id it was given.
VisMounted == [pending |-> {[id |-> 1, eff |-> 1]}, frameId |-> 1,
               firstId |-> 1, nextId |-> 2, eff |-> 1, dirty |-> FALSE,
               paints |-> 0, commits |-> 0]

\* ChatAgent after construction (ChatAgent.tsx lines 9-14): an empty input,
\* the greeting of the model, nothing loading
ChatIdle == [input |-> "", messages |-> <<[id |-> 0, role |-> "model",
                                          text |-> <<"greeting">>]>>,
             loading |-> FALSE, pc |-> "idle", responseId |-> 0,
             fullResponse |-> <<>>, now |-> 1, sends |-> 0, chunks |-> 0]

\* no url, no error message (the optional fields of GenerationResult)
None == "none"

\* CreativeStudio after construction (CreativeStudio.tsx lines 9-11): the
\* image tool, an empty prompt, no result
\* useState<GenerationResult | null>(null), line 11
NoResult == [type |-> None, loading |-> FALSE, url |-> None, error |-> None]

StudioIdle == [activeTool |-> "IMAGE_GEN", prompt |-> "",
               result |-> NoResult, pc |-> "idle", tool |-> "IMAGE_GEN",
               op |-> "none", polls |-> 0, runs |-> 0, aistudio |-> FALSE,
               hasKey |-> FALSE]

\* everything outside LiveAgent's session state is at rest
InitOther ==
  framer = FramerIdle /\ vis = VisMounted /\ chat = ChatIdle
  /\ studio = StudioIdle

Init == InitRefs /\ volume = 0 /\ InitOther

(* ------------------------- helpers ------------------------------------- *)
\* one more event is handled
Step ==
  /\ steps < MaxSteps /\ steps' = steps + 1 /\ framer' = framer /\ vis' = vis
  /\ chat' = chat /\ studio' = studio

\* source.stop() on every source of a set: the sources are marked stopped
StopSources(s, ids) ==
  [i \in DOMAIN s |-> IF s[i].id \in ids /\ s[i].st = "scheduled"
                      THEN [s[i] EXCEPT !.st = "stopped"] ELSE s[i]]

\* AudioContext.close(): closing a context that is closed already rejects
CloseRejects == (audioContextRef # 0 /\ audioContextRef \in ctxOutClosed)
             \/ (inputContextRef # 0 /\ inputContextRef \in ctxInClosed)

\* variant of stopAudio: the output context is closed but its handle is kept
stopAudio_KeepHandle(sRef, strm) ==
  /\ processorRef' = 0
  /\ sourceRef' = 0
  /\ streamRef' = 0
  /\ stream' = IF sRef # 0 THEN [strm EXCEPT ![sRef] = "stopped"] ELSE strm
  /\ inputContextRef' = 0
  /\ ctxInClosed' = IF inputContextRef # 0
                    THEN ctxInClosed \cup {inputContextRef} ELSE ctxInClosed
  /\ tapState' = [k \in Sessions |->
                    IF /\ tapState[k] = "installed"
                       /\ \/ k = processorRef
                          \/ (inputContextRef # 0 /\ tapCtx[k] = inputContextRef)
                    THEN "draining" ELSE tapState[k]]
  /\ sched' = StopSources(sched, activeSourcesRef)
  /\ activeSourcesRef' = {}
  /\ audioContextRef' = audioContextRef
  /\ ctxOutClosed' = IF audioContextRef # 0
                     THEN ctxOutClosed \cup {audioContextRef} ELSE ctxOutClosed
  /\ connected' = FALSE
  /\ volume' = 0
  /\ thrown' = IF CloseRejects THEN thrown \cup {"stopAudio"} ELSE thrown

\* stopAudio, lines 78-111.  sRef and strm are streamRef.current and the
\* streams as the caller left them before the call.
stopAudio(sRef, strm) ==
  /\ processorRef' = 0
  /\ sourceRef' = 0
  /\ streamRef' = 0
  /\ stream' = IF sRef # 0 THEN [strm EXCEPT ![sRef] = "stopped"] ELSE strm
  /\ inputContextRef' = 0
  /\ ctxInClosed' = IF inputContextRef # 0
                    THEN ctxInClosed \cup {inputContextRef} ELSE ctxInClosed
  /\ tapState' = [k \in Sessions |->
                    IF /\ tapState[k] = "installed"
                       /\ \/ k = processorRef
                          \/ (inputContextRef # 0 /\ tapCtx[k] = inputContextRef)
                    THEN "draining" ELSE tapState[k]]
  /\ sched' = StopSources(sched, activeSourcesRef)
  /\ activeSourcesRef' = {}
  /\ audioContextRef' = 0
  /\ ctxOutClosed' = IF audioContextRef # 0
                     THEN ctxOutClosed \cup {audioContextRef} ELSE ctxOutClosed
  /\ connected' = FALSE
  /\ volume' = 0
  /\ thrown' = IF CloseRejects THEN thrown \cup {"stopAudio"} ELSE thrown

(* ------------------------- startSession -------------------------------- *)
\* variant of StartEnabled: the start button is rendered in every state
StartEnabled_Always == mounted

\* the start button is rendered only while connected is false
StartEnabled == mounted /\ ~connected

\* startSession up to its await of getUserMedia, lines 113-122
StartSession(k) ==
  /\ Step
  /\ StartEnabled
  /\ pc[k] = "idle"
  /\ \A j \in Sessions : j < k => pc[j] # "idle"
  /\ error' = "null"
  /\ audioContextRef' = k
  /\ inputContextRef' = k
  /\ pc' = [pc EXCEPT ![k] = "awaitMic"]
  /\ UNCHANGED <<mounted, connected, volume, streamRef, processorRef,
                 sourceRef, activeSourcesRef, sessionPromiseRef, outputNode,
                 chan, promise, ctxOutClosed, ctxInClosed, clock, stream,
                 tapState, sched, thrown>>
  /\ UNCHANGED <<playVars, capVars>>

\* getUserMedia resolves: lines 123-129, or the catch of lines 209-213 when
\* audioContextRef.current is null by then (createGain of null throws)
MicGranted(k) ==
  /\ Step
  /\ pc[k] = "awaitMic"
  /\ IF audioContextRef = 0
     THEN /\ error' = "Failed to start session"
          /\ stopAudio(k, [stream EXCEPT ![k] = "live"])
          /\ pc' = [pc EXCEPT ![k] = "caught"]
          /\ UNCHANGED <<sessionPromiseRef, outputNode, chan, promise>>
     ELSE /\ streamRef' = k
          /\ stream' = [stream EXCEPT ![k] = "live"]
          /\ outputNode' = [outputNode EXCEPT ![k] = audioContextRef]
          /\ sessionPromiseRef' = k
          /\ chan' = [chan EXCEPT ![k] = "connecting"]
          /\ promise' = [promise EXCEPT ![k] = "pending"]
          /\ pc' = [pc EXCEPT ![k] = "done"]
          /\ UNCHANGED <<error, processorRef, sourceRef, inputContextRef,
                         ctxInClosed, tapState, sched, activeSourcesRef,
                         audioContextRef, ctxOutClosed, connected, volume,
                         thrown>>
  /\ UNCHANGED <<mounted, clock>>
  /\ UNCHANGED <<playVars, capVars>>

\* getUserMedia rejects: the catch of lines 209-213
MicDenied(k) ==
  /\ Step
  /\ pc[k] = "awaitMic"
  /\ error' = "Failed to start session"
  /\ stopAudio(streamRef, stream)
  /\ pc' = [pc EXCEPT ![k] = "caught"]
  /\ UNCHANGED <<mounted, sessionPromiseRef, outputNode, chan, promise, clock>>
  /\ UNCHANGED <<playVars, capVars>>

(* ------------------------- channel callbacks --------------------------- *)
\* the promise of ai.live.connect rejects; nothing awaits or catches it
\* (line 129 assigns the promise, the try block ends at line 207)
ConnectReject(k) ==
  /\ Step
  /\ chan[k] = "connecting"
  /\ promise[k] = "pending"
  /\ chan' = [chan EXCEPT ![k] = "rejected"]
  /\ promise' = [promise EXCEPT ![k] = "rejected"]
  /\ pendingThen' = [pendingThen EXCEPT ![k] = <<>>]
  /\ UNCHANGED <<mounted, error, sessionPromiseRef, pc, outputNode, clock,
                 nextStartTimeRef, handlers, msgCount, intrCount, fresh,
                 tapCtx, tapCount, sent>>
  /\ UNCHANGED teardownVars

\* onopen, lines 132-159, followed by the resolution of the promise of
\* connect, which runs the then-callbacks queued on it (line 152)
ChannelOpen(k) ==
  /\ Step
  /\ chan[k] = "connecting"
  /\ chan' = [chan EXCEPT ![k] = "open"]
  /\ promise' = [promise EXCEPT ![k] = "resolved"]
  /\ connected' = TRUE
  /\ IF inputContextRef = 0
     THEN UNCHANGED <<sourceRef, processorRef, tapState, tapCtx>>
     ELSE /\ sourceRef' = k
          /\ processorRef' = k
          /\ tapState' = [tapState EXCEPT ![k] = "installed"]
          /\ tapCtx' = [tapCtx EXCEPT ![k] = inputContextRef]
  /\ sent' = [sent EXCEPT ![k] = sent[k] \o pendingThen[k]]
  /\ pendingThen' = [pendingThen EXCEPT ![k] = <<>>]
  /\ UNCHANGED <<mounted, error, volume, audioContextRef, inputContextRef,
                 streamRef, activeSourcesRef, sessionPromiseRef, pc,
                 outputNode, ctxOutClosed, ctxInClosed, clock, stream, sched,
                 tapCount, thrown>>
  /\ UNCHANGED playVars

\* variant of Interrupt: the sources are stopped but the set is not cleared
Interrupt_NoClear(s, act) ==
  /\ sched' = StopSources(s, act)
  /\ activeSourcesRef' = act
  /\ nextStartTimeRef' = 0
  /\ intrCount' = intrCount + 1
  /\ fresh' = TRUE

\* the interruption branch of onmessage, lines 184-188, applied to the
\* scheduler state (s, act, nst) the audio branch left
Interrupt(s, act) ==
  /\ sched' = StopSources(s, act)
  /\ activeSourcesRef' = {}
  /\ nextStartTimeRef' = 0
  /\ intrCount' = intrCount + 1
  /\ fresh' = TRUE

\* variant of NextStart: the clock alone, the pending offset forgotten
NextStart_ClockOnly(nst, now) == now

\* start time picked on arrival of an audio chunk, line 165
NextStart(nst, now) == Max(nst, now)

\* onmessage up to its await (lines 160-168), or to its end when the
\* message has no audio or there is no output context (lines 160-189)
Message(k, hasAudio, intr) ==
  /\ Step
  /\ chan[k] = "open"
  /\ msgCount < MaxMsgs
  /\ hasAudio \/ intr
  /\ msgCount' = msgCount + 1
  /\ IF hasAudio /\ audioContextRef # 0
     THEN /\ nextStartTimeRef' =
               NextStart(nextStartTimeRef, clock[audioContextRef])
          /\ handlers' = handlers \cup
               {[id |-> msgCount + 1, sess |-> k, ctx |-> audioContextRef,
                 intr |-> intr, arr |-> clock[audioContextRef],
                 ep |-> intrCount, first |-> fresh,
                 adv |-> NextStart(nextStartTimeRef, clock[audioContextRef])
                           # nextStartTimeRef]}
          /\ fresh' = FALSE
          /\ UNCHANGED <<sched, activeSourcesRef, intrCount>>
     ELSE /\ IF intr
             THEN Interrupt(sched, activeSourcesRef)
             ELSE UNCHANGED <<sched, activeSourcesRef, nextStartTimeRef,
                              intrCount, fresh>>
          /\ UNCHANGED handlers
  /\ UNCHANGED <<mounted, connected, error, volume, audioContextRef,
                 inputContextRef, streamRef, processorRef, sourceRef,
                 sessionPromiseRef, pc, outputNode, chan, promise,
                 ctxOutClosed, ctxInClosed, clock, stream, tapState, thrown>>
  /\ UNCHANGED capVars

\* the decode of a chunk resolves with a buffer of duration d: onmessage
\* resumes after its await, lines 170-189.  connect() throws when the
\* source and outputNode belong to different contexts.
DecodeDone(h, d) ==
  /\ Step
  /\ h \in handlers
  /\ handlers' = handlers \ {h}
  /\ IF outputNode[h.sess] # h.ctx
     THEN /\ thrown' = thrown \cup {"onmessage"}
          /\ UNCHANGED <<sched, activeSourcesRef, nextStartTimeRef,
                         intrCount, fresh>>
     ELSE LET seg == [id |-> h.id, sess |-> h.sess, ctx |-> h.ctx,
                      start |-> nextStartTimeRef, dur |-> d,
                      at |-> clock[h.ctx], arr |-> h.arr, ep |-> h.ep,
                      epS |-> intrCount, first |-> h.first,
                      st |-> "scheduled"]
              s1 == Append(sched, seg)
              act1 == activeSourcesRef \cup {h.id}
          IN /\ IF h.intr
                THEN Interrupt(s1, act1)
                ELSE /\ sched' = s1
                     /\ activeSourcesRef' = act1
                     /\ nextStartTimeRef' = nextStartTimeRef + d
                     /\ UNCHANGED <<intrCount, fresh>>
             /\ UNCHANGED thrown
  /\ UNCHANGED <<mounted, connected, error, volume, audioContextRef,
                 inputContextRef, streamRef, processorRef, sourceRef,
                 sessionPromiseRef, pc, outputNode, chan, promise,
                 ctxOutClosed, ctxInClosed, clock, stream, tapState,
                 msgCount>>
  /\ UNCHANGED capVars

\* the decode of a chunk rejects: the await of line 168 throws and
\* onmessage ends there
DecodeFail(h) ==
  /\ Step
  /\ h \in handlers
  /\ handlers' = handlers \ {h}
  /\ thrown' = thrown \cup {"onmessage"}
  /\ UNCHANGED <<mounted, connected, error, volume, audioContextRef,
                 inputContextRef, streamRef, processorRef, sourceRef,
                 nextStartTimeRef, activeSourcesRef, sessionPromiseRef, pc,
                 outputNode, chan, promise, ctxOutClosed, ctxInClosed, clock,
                 stream, tapState, sched, msgCount, intrCount, fresh>>
  /\ UNCHANGED capVars

\* onclose, lines 190-193
ChannelClose(k) ==
  /\ Step
  /\ chan[k] \in {"connecting", "open", "errored"}
  /\ chan' = [chan EXCEPT ![k] = "closed"]
  /\ stopAudio(streamRef, stream)
  /\ UNCHANGED <<mounted, error, sessionPromiseRef, pc, outputNode, promise,
                 clock>>
  /\ UNCHANGED <<playVars, capVars>>

\* onerror, lines 194-198
ChannelError(k) ==
  /\ Step
  /\ chan[k] \in {"connecting", "open"}
  /\ chan' = [chan EXCEPT ![k] = "errored"]
  /\ error' = "Connection error. Please try again."
  /\ stopAudio(streamRef, stream)
  /\ UNCHANGED <<mounted, sessionPromiseRef, pc, outputNode, promise, clock>>
  /\ UNCHANGED <<playVars, capVars>>

(* ------------------------- user and view ------------------------------- *)
\* the stop button (rendered only while connected), lines 262-268
UserStop ==
  /\ Step
  /\ mounted
  /\ connected
  /\ stopAudio(streamRef, stream)
  /\ UNCHANGED <<mounted, error, sessionPromiseRef, pc, outputNode, chan,
                 promise, clock>>
  /\ UNCHANGED <<playVars, capVars>>

\* the cleanup of the unmount effect, lines 216-220
Unmount ==
  /\ Step
  /\ mounted
  /\ mounted' = FALSE
  /\ stopAudio(streamRef, stream)
  /\ UNCHANGED <<error, sessionPromiseRef, pc, outputNode, chan, promise,
                 clock>>
  /\ UNCHANGED <<playVars, capVars>>

(* ------------------------- capture tap --------------------------------- *)
\* setVolume(v => Math.max(rms, v * 0.9)), line 149, in fixed point
\* variant of Decay: the factor 0.9 is lost, the old value is kept
Decay_None(v) == v

Decay(v) == (v * 9) \div 10

\* variant of UpdateVolume: the new level is added to the decayed one
UpdateVolume_Sum(v, rms) == rms + Decay(v)

UpdateVolume(v, rms) == Max(rms, Decay(v))

\* onaudioprocess of the tap built by onopen of k, lines 143-155.  A tap
\* that was disconnected may still run the one callback that was queued.
TapFire(k, rms) ==
  /\ Step
  /\ tapState[k] \in {"installed", "draining"}
  /\ tapCount < MaxTaps
  /\ tapCount' = tapCount + 1
  /\ tapState' = IF tapState[k] = "draining"
                 THEN [tapState EXCEPT ![k] = "dead"] ELSE tapState
  /\ volume' = UpdateVolume(volume, rms)
  /\ LET p == sessionPromiseRef IN
       IF p = 0 \/ promise[p] = "rejected"
       THEN UNCHANGED <<sent, pendingThen>>
       ELSE IF promise[p] = "pending"
       THEN /\ pendingThen' =
                 [pendingThen EXCEPT ![p] = Append(@, tapCount + 1)]
            /\ UNCHANGED sent
       ELSE /\ sent' = IF chan[p] = "open"
                       THEN [sent EXCEPT ![p] = Append(@, tapCount + 1)]
                       ELSE sent
            /\ UNCHANGED pendingThen
  /\ UNCHANGED <<mounted, connected, error, audioContextRef, inputContextRef,
                 streamRef, processorRef, sourceRef, activeSourcesRef,
                 sessionPromiseRef, pc, outputNode, chan, promise,
                 ctxOutClosed, ctxInClosed, clock, stream, tapCtx, sched,
                 thrown>>
  /\ UNCHANGED playVars

(* ------------------------- output device ------------------------------- *)
\* the 'ended' listener of a source that played to its end, lines 174-176
SegmentEnded(i) ==
  /\ Step
  /\ i \in DOMAIN sched
  /\ sched[i].st = "scheduled"
  /\ sched[i].ctx \notin ctxOutClosed
  /\ clock[sched[i].ctx] >= Max(sched[i].start, sched[i].at) + sched[i].dur
  /\ sched' = [sched EXCEPT ![i].st = "ended"]
  /\ activeSourcesRef' = activeSourcesRef \ {sched[i].id}
  /\ UNCHANGED <<mounted, connected, error, volume, audioContextRef,
                 inputContextRef, streamRef, processorRef, sourceRef,
                 nextStartTimeRef, sessionPromiseRef, pc, outputNode, chan,
                 promise, ctxOutClosed, ctxInClosed, clock, stream, tapState,
                 handlers, msgCount, intrCount, fresh, thrown>>
  /\ UNCHANGED capVars

\* the output clocks advance: currentTime of every open output context,
\* explored up to m
TickTo(m) ==
  /\ Step
  /\ \E k \in Sessions : pc[k] # "idle" /\ k \notin ctxOutClosed
  /\ \A k \in Sessions :
        (pc[k] # "idle" /\ k \notin ctxOutClosed) => clock[k] < m
  /\ clock' = [k \in Sessions |->
                 IF pc[k] # "idle" /\ k \notin ctxOutClosed
                 THEN clock[k] + 1 ELSE clock[k]]
  /\ UNCHANGED <<mounted, error, sessionPromiseRef, pc, outputNode, chan,
                 promise>>
  /\ UNCHANGED <<teardownVars, playVars, capVars>>

Tick == TickTo(MaxClock)

(* ------------------------- specification ------------------------------- *)
Next ==
  \/ \E k \in Sessions : StartSession(k)
  \/ \E k \in Sessions : MicGranted(k)
  \/ \E k \in Sessions : MicDenied(k)
  \/ \E k \in Sessions : ConnectReject(k)
  \/ \E k \in Sessions : ChannelOpen(k)
  \/ \E k \in Sessions, a \in BOOLEAN, i \in BOOLEAN : Message(k, a, i)
  \/ \E h \in handlers, d \in DurSet : DecodeDone(h, d)
  \/ \E h \in handlers : DecodeFail(h)
  \/ \E k \in Sessions : ChannelClose(k)
  \/ \E k \in Sessions : ChannelError(k)
  \/ UserStop
  \/ Unmount
  \/ \E k \in Sessions, r \in RmsSet : TapFire(k, r)
  \/ \E i \in DOMAIN sched : SegmentEnded(i)
  \/ Tick

Spec == Init /\ [][Next]_vars

(* ------------------------- properties ---------------------------------- *)
\* two sources of one session, i started before j, with no interruption
\* carried out from the start of i to the start of j
SameRun(i, j) ==
  /\ i \in DOMAIN sched /\ j \in DOMAIN sched /\ i < j
  /\ sched[i].sess = sched[j].sess
  /\ sched[i].epS = sched[j].epS

\* C1: within one session and with no interruption in between, the
\* scheduled start times never decrease and every source starts at or
\* after the start of each earlier one plus that one's duration.
C1_NoOverlap ==
  \A i, j \in DOMAIN sched :
     SameRun(i, j) =>
        /\ sched[j].start >= sched[i].start
        /\ sched[j].start >= sched[i].start + sched[i].dur

\* C1 witness: two chunks of one session were scheduled one after the
\* other while the clock was running, with no interruption in between
C1_Witness ==
  \E i, j \in DOMAIN sched : SameRun(i, j) /\ sched[j].arr > 0

\* an onmessage invocation for a message with the interruption flag runs to
\* its end in this step
IntrHandled ==
  \/ \E k \in Sessions, a \in BOOLEAN :
        Message(k, a, TRUE) /\ handlers' = handlers
  \/ \E h \in handlers, d \in DurSet :
        h.intr /\ DecodeDone(h, d) /\ thrown' = thrown

\* C2: after the handler of a message with the interruption flag every
\* source is stopped, the active set is empty and nextStartTime is 0; and
\* the source of the first chunk that arrives after an interruption starts
\* at the current time of the output clock (as read when the chunk arrived
\* or when the source is started).
C2_Interruption ==
  /\ [][IntrHandled =>
          /\ activeSourcesRef' = {}
          /\ nextStartTimeRef' = 0
          /\ \A i \in DOMAIN sched' : sched'[i].st # "scheduled"]_vars
  /\ [](\A i \in DOMAIN sched :
          sched[i].first => sched[i].start \in {sched[i].arr, sched[i].at})

\* C3: chunks of one session that arrived in some order, with no
\* interruption from the arrival of the first to the start of both, are
\* given start times in that order.
C3_ArrivalOrder ==
  \A i, j \in DOMAIN sched :
     ( /\ sched[i].sess = sched[j].sess
       /\ sched[i].id < sched[j].id
       /\ sched[i].ep = sched[j].epS
       /\ sched[i].epS = sched[j].epS )
     => sched[i].start <= sched[j].start

\* every handle stopAudio releases is null, nothing plays, not Active
TornDown ==
  /\ processorRef = 0 /\ sourceRef = 0 /\ streamRef = 0
  /\ inputContextRef = 0 /\ audioContextRef = 0
  /\ activeSourcesRef = {}
  /\ ~connected /\ volume = 0

\* a step that is a call of stopAudio (with, for onerror and the catch of
\* a rejected getUserMedia, the setError before it)
TeardownCall ==
  \/ UserStop
  \/ Unmount
  \/ \E k \in Sessions : ChannelClose(k) \/ ChannelError(k) \/ MicDenied(k)

\* a step that ends with a call of stopAudio
TeardownStep ==
  \/ TeardownCall
  \/ \E k \in Sessions : MicGranted(k) /\ pc'[k] = "caught"

\* C4: stopAudio raises no error in any state, it leaves the torn-down
\* state behind, and called in the torn-down state (as a second call in a
\* row is) it changes nothing.
C4_TeardownIdempotent ==
  [][ /\ TeardownStep => (TornDown' /\ "stopAudio" \notin thrown')
      /\ (TeardownCall /\ TornDown) => UNCHANGED teardownVars ]_vars

\* C4 witness: onerror and then onclose of the one session ran back to
\* back, each calling stopAudio
C4_Witness ==
  /\ steps = 4
  /\ chan[1] = "closed"
  /\ error = "Connection error. Please try again."
  /\ TornDown

\* C5: after teardown every handle is null or released, the channel handle
\* included, nothing plays, the Energy Sample is 0 and the session is not
\* Active.
C5_AllHandlesNull ==
  [][TeardownStep =>
       /\ TornDown'
       /\ sessionPromiseRef' = 0
       /\ \A k \in Sessions : chan'[k] # "open"]_vars

\* C6: at most one microphone stream is held, at most one tap is installed
\* and at most one channel is open.
C6_OneSession ==
  /\ Cardinality({k \in Sessions : stream[k] = "live"}) <= 1
  /\ Cardinality({k \in Sessions : tapState[k] = "installed"}) <= 1
  /\ Cardinality({k \in Sessions : chan[k] = "open"}) <= 1

\* C7: a tap is installed only while the session is Active, and only by a
\* channel that reported open.
C7_TapOnlyWhenActive ==
  \A k \in Sessions :
     tapState[k] = "installed" =>
        connected /\ chan[k] \notin {"none", "connecting", "rejected"}

\* C7 witness: a tap is installed
C7_Witness ==
  \E k \in Sessions : tapState[k] = "installed" /\ processorRef = k

\* C8: a tap callback that still runs after its tap was uninstalled changes
\* neither the Energy Sample nor the session state and sends nothing.
C8_StaleTapNoOp ==
  [][\A k \in Sessions :
       (tapState[k] = "draining" /\ tapState'[k] = "dead") =>
          /\ volume' = volume
          /\ connected' = connected
          /\ sent' = sent
          /\ pendingThen' = pendingThen]_vars

\* the handshake of invocation k fails: the promise of connect rejects, or
\* the channel reports an error before it reported open
HandshakeFails(k) ==
  \/ ConnectReject(k)
  \/ chan[k] = "connecting" /\ ChannelError(k)

\* C9: when the handshake fails an error is shown, the session is not
\* Active and the stream and both contexts of that start are released.
C9_HandshakeFailure ==
  [][\A k \in Sessions :
       HandshakeFails(k) =>
          /\ error' # "null"
          /\ ~connected'
          /\ stream'[k] # "live"
          /\ k \in ctxOutClosed' /\ k \in ctxInClosed']_vars

\* C10: when getUserMedia rejects an error is shown, the session is not
\* Active, both contexts of that start are released, and neither then nor
\* later is a channel opened for that start.
C10_MicFailure ==
  /\ [][\A k \in Sessions :
          MicDenied(k) =>
             /\ error' # "null"
             /\ ~connected'
             /\ k \in ctxOutClosed' /\ k \in ctxInClosed']_vars
  /\ [](\A k \in Sessions :
          (pc[k] = "caught" /\ stream[k] = "none") => chan[k] = "none")

\* a resource of some invocation of startSession is still alive: a tap is
\* installed, a microphone stream is held, an audio context that was
\* created is not closed, or a source is in the active set
PartiallyAlive ==
  \/ \E k \in Sessions : tapState[k] = "installed"
  \/ \E k \in Sessions : stream[k] = "live"
  \/ \E k \in Sessions : pc[k] # "idle" /\ k \notin ctxOutClosed
  \/ \E k \in Sessions : pc[k] # "idle" /\ k \notin ctxInClosed
  \/ activeSourcesRef # {}

\* C11: while an error is shown (startSession clears it, so no start was
\* issued since) no tap is installed, no microphone stream is held, no
\* audio context is open and the active set is empty.
C11_ErrorMeansTornDown ==
  error # "null" => ~PartiallyAlive

C13_OneSendPerTap ==
  /\ [][\A k \in Sessions, rms \in RmsSet :
          (TapFire(k, rms) /\ connected /\ tapState[k] = "installed") =>
             \E p \in Sessions :
                \/ sent' = [sent EXCEPT ![p] = Append(@, tapCount + 1)]
                \/ pendingThen' =
                     [pendingThen EXCEPT ![p] = Append(@, tapCount + 1)]]_vars
  /\ [][\A p \in Sessions :
          (pendingThen[p] # <<>> /\ pendingThen'[p] = <<>>) =>
             sent'[p] = sent[p] \o pendingThen[p]]_vars
  /\ [](\A p \in Sessions : \A i, j \in DOMAIN sent[p] :
          i < j => sent[p][i] < sent[p][j])

\* C14: at most one payload is ever held pending for a channel whose
\* handle is not available yet, however many tap callbacks fire.
C14_PendingBounded ==
  \A p \in Sessions : Len(pendingThen[p]) <= 1

\* C16: every source was started (source.start called) with a start time
\* at or after the time its output clock showed at that moment.
C16_StartNotInPast ==
  \A i \in DOMAIN sched : sched[i].start >= sched[i].at

\* C18: when the decode of a chunk resolves after an interruption was
\* carried out or its output context was torn down while it was pending,
\* the chunk is not started and not added to the active set, and
\* nextStartTime is left alone.
C18_StaleChunkDropped ==
  [][\A h \in handlers, d \in DurSet :
       (DecodeDone(h, d) /\ (h.ep # intrCount \/ h.ctx \in ctxOutClosed)) =>
          /\ sched' = sched
          /\ activeSourcesRef' = activeSourcesRef
          /\ nextStartTimeRef' = nextStartTimeRef]_vars

\* the resources of start k were released by a teardown and start j came
\* after it
StartedAfterTeardown(k, j) ==
  /\ k < j
  /\ k \in ctxOutClosed /\ k \in ctxInClosed /\ stream[k] # "live"
  /\ pc[j] # "idle"

\* a callback of the channel of start k runs in this step
ChannelEvent(k) ==
  \/ ChannelOpen(k)
  \/ \E a \in BOOLEAN, i \in BOOLEAN : Message(k, a, i)
  \/ \E h \in handlers, d \in DurSet : h.sess = k /\ DecodeDone(h, d)
  \/ ChannelClose(k)
  \/ ChannelError(k)

\* C19: a callback of the channel of a session that was torn down before
\* a later session was started releases nothing of the later session
\* (stream, tap, contexts), does not change the Active state and starts no
\* source on the later session's output context.
C19_StaleChannelHarmless ==
  [][\A k \in Sessions, j \in Sessions :
       (StartedAfterTeardown(k, j) /\ ChannelEvent(k)) =>
          /\ stream'[j] = stream[j]
          /\ tapState'[j] = tapState[j]
          /\ (j \in ctxOutClosed') = (j \in ctxOutClosed)
          /\ (j \in ctxInClosed') = (j \in ctxInClosed)
          /\ connected' = connected
          /\ \A i \in DOMAIN sched' :
                (i \notin DOMAIN sched) => sched'[i].ctx # j]_vars

\* the new source starts right at the end of the previous one when that
\* end is not in the past at the time now, and at now otherwise
Gapless(prevEnd, now) == IF prevEnd >= now THEN prevEnd ELSE now

\* C20: of two sources of one session started one after the other, with no
\* interruption since the second one's chunk arrived nor between the two
\* starts, the second starts as Gapless says, the time of the output clock
\* being read when its chunk arrived or when source.start is called.
C20_Gapless ==
  \A i \in DOMAIN sched :
     ( /\ i + 1 \in DOMAIN sched
       /\ sched[i].sess = sched[i + 1].sess
       /\ sched[i].epS = sched[i + 1].epS
       /\ sched[i + 1].ep = sched[i + 1].epS )
     => LET prevEnd == sched[i].start + sched[i].dur
        IN sched[i + 1].start \in {Gapless(prevEnd, sched[i + 1].arr),
                                   Gapless(prevEnd, sched[i + 1].at)}

\* C22: the active set holds exactly the sources that were started and
\* have neither played to their end nor been stopped by an interruption or
\* a teardown.
C22_ActiveSetExact ==
  activeSourcesRef =
     {sched[i].id : i \in {m \in DOMAIN sched : sched[m].st = "scheduled"}}

\* C22 witness: one source was stopped by an interruption and is out of
\* the set, a later one was started and is in it
C22_Witness ==
  \E i, j \in DOMAIN sched :
     /\ sched[i].st = "stopped" /\ sched[i].id \notin activeSourcesRef
     /\ sched[j].st = "scheduled" /\ sched[j].id \in activeSourcesRef
     /\ intrCount > 0

\* C23: no error leaves a callback, and the onmessage invocation of a
\* message that carries the interruption flag carries the interruption out
\* whatever became of its audio chunk.
C23_NoErrorEscapes ==
  /\ [](thrown = {})
  /\ [][\A h \in handlers :
          (h.intr /\ (DecodeFail(h) \/ \E d \in DurSet : DecodeDone(h, d)))
             => intrCount' = intrCount + 1]_vars

\* C26: while LiveAgent is mounted and connected is true the session's
\* resources are live: a microphone stream is held, a tap is installed and
\* both audio contexts are open.
C26_ActiveMeansLive ==
  (mounted /\ connected) =>
     /\ streamRef # 0 /\ stream[streamRef] = "live"
     /\ processorRef # 0 /\ tapState[processorRef] = "installed"
     /\ audioContextRef # 0 /\ audioContextRef \notin ctxOutClosed
     /\ inputContextRef # 0 /\ inputContextRef \notin ctxInClosed

(* ------------------------- playback alone ------------------------------ *)
\* the playback scheduler of one Active session: the state after
\* startSession, the grant of the microphone and onopen of session 1
PlayInit ==
  /\ mounted = TRUE
  /\ connected = TRUE
  /\ error = "null"
  /\ volume = 0
  /\ audioContextRef = 1
  /\ inputContextRef = 1
  /\ streamRef = 1
  /\ processorRef = 1
  /\ sourceRef = 1
  /\ nextStartTimeRef = 0
  /\ activeSourcesRef = {}
  /\ sessionPromiseRef = 1
  /\ pc = [k \in Sessions |-> IF k = 1 THEN "done" ELSE "idle"]
  /\ outputNode = [k \in Sessions |-> IF k = 1 THEN 1 ELSE 0]
  /\ chan = [k \in Sessions |-> IF k = 1 THEN "open" ELSE "none"]
  /\ promise = [k \in Sessions |-> IF k = 1 THEN "resolved" ELSE "none"]
  /\ ctxOutClosed = {}
  /\ ctxInClosed = {}
  /\ clock = [k \in Sessions |-> 0]
  /\ stream = [k \in Sessions |-> IF k = 1 THEN "live" ELSE "none"]
  /\ tapState = [k \in Sessions |-> IF k = 1 THEN "installed" ELSE "none"]
  /\ tapCtx = [k \in Sessions |-> IF k = 1 THEN 1 ELSE 0]
  /\ handlers = {}
  /\ sched = <<>>
  /\ msgCount = 0
  /\ intrCount = 0
  /\ fresh = FALSE
  /\ tapCount = 0
  /\ sent = [k \in Sessions |-> <<>>]
  /\ pendingThen = [k \in Sessions |-> <<>>]
  /\ thrown = {}
  /\ steps = 0
  /\ InitOther

PlayNext ==
  \/ \E a \in BOOLEAN, i \in BOOLEAN : Message(1, a, i)
  \/ \E h \in handlers, d \in DurSet : DecodeDone(h, d)
  \/ \E h \in handlers : DecodeFail(h)
  \/ \E i \in DOMAIN sched : SegmentEnded(i)
  \/ TickTo(PlayMaxClock)

SpecPlay == PlayInit /\ [][PlayNext]_vars

(* ------------------------- Energy Sample alone ------------------------- *)
\* the update of line 149 as a pure function: the Energy Sample starts
\* anywhere in [0, 1] and only silent frames (rms = 0) follow
EnergyInit == InitRefs /\ volume \in 0..EnergyOne /\ InitOther

\* onaudioprocess on an all-zero block, lines 144-149: rms is 0
SilentFrame ==
  /\ tapCount < SettleFrames
  /\ tapCount' = tapCount + 1
  /\ volume' = UpdateVolume(volume, 0)
  /\ UNCHANGED <<mounted, connected, error, audioContextRef, inputContextRef,
                 streamRef, processorRef, sourceRef, activeSourcesRef,
                 sessionPromiseRef, pc, outputNode, chan, promise,
                 ctxOutClosed, ctxInClosed, clock, stream, tapState, tapCtx,
                 sent, pendingThen, sched, thrown, steps, framer, vis,
                 chat, studio>>
  /\ UNCHANGED playVars

EnergyNext == SilentFrame

SpecEnergy == EnergyInit /\ [][EnergyNext]_vars

\* C15: a silent frame never raises the Energy Sample, and after
\* SettleFrames consecutive silent frames it is within EnergyEps of 0
\* whatever value in [0, 1] it started from.
C15_EnergyDecay ==
  /\ [][SilentFrame => volume' <= volume]_vars
  /\ [](tapCount >= SettleFrames => volume <= EnergyEps)

\* C15 witness: SettleFrames silent frames have passed and the Energy
\* Sample, started high enough, has come down to within EnergyEps but has
\* not reached 0 yet
C15_Witness ==
  tapCount = SettleFrames /\ volume > 0 /\ volume <= EnergyEps

(* ------------------------- Energy Sample and teardown ------------------ *)
\* lines 144-149 in full: the rms of a block of samples is computed and
\* folded into the Energy Sample; stopAudio resets it (line 110).  Samples
\* are in units of 1 / EnergyOne.
LevelSamples == {-EnergyOne, -(EnergyOne \div 2), -(EnergyOne \div 5), 0, 1,
                 EnergyOne \div 4, (EnergyOne * 7) \div 10, EnergyOne}

RECURSIVE LevelBlocks(_)
LevelBlocks(n) ==
  IF n = 0 THEN {<<>>}
  ELSE {<<x>> \o t : x \in LevelSamples, t \in LevelBlocks(n - 1)}

RECURSIVE SumSquares(_)
SumSquares(b) ==
  IF b = <<>> THEN 0 ELSE Head(b) * Head(b) + SumSquares(Tail(b))

\* Math.sqrt, rounded down to the unit
Sqrt(n) == CHOOSE r \in 0..(2 * EnergyOne) : r * r <= n /\ n < (r + 1) * (r + 1)

\* rms of a block, lines 146-148
Rms(b) == Sqrt(SumSquares(b) \div Len(b))

\* onaudioprocess on block b, lines 144-149
LevelFrame(b) ==
  /\ tapCount < MaxLevelTaps
  /\ tapCount' = tapCount + 1
  /\ volume' = UpdateVolume(volume, Rms(b))
  /\ UNCHANGED <<mounted, connected, error, audioContextRef, inputContextRef,
                 streamRef, processorRef, sourceRef, activeSourcesRef,
                 sessionPromiseRef, pc, outputNode, chan, promise,
                 ctxOutClosed, ctxInClosed, clock, stream, tapState, tapCtx,
                 sent, pendingThen, sched, thrown, steps, framer, vis,
                 chat, studio>>
  /\ UNCHANGED playVars

\* setVolume(0) of stopAudio, line 110
LevelReset ==
  /\ volume # 0
  /\ volume' = 0
  /\ UNCHANGED <<mounted, connected, error, audioContextRef, inputContextRef,
                 streamRef, processorRef, sourceRef, activeSourcesRef,
                 sessionPromiseRef, pc, outputNode, chan, promise,
                 ctxOutClosed, ctxInClosed, clock, stream, tapState, tapCtx,
                 sent, pendingThen, sched, thrown, steps, framer, vis,
                 chat, studio, tapCount>>
  /\ UNCHANGED playVars

LevelNext == (\E b \in LevelBlocks(LevelBlock) : LevelFrame(b)) \/ LevelReset

SpecLevel == Init /\ [][LevelNext]_vars

\* C24: the Energy Sample is between 0 and 1 in every state.
C24_EnergyInRange ==
  volume >= 0 /\ volume <= EnergyOne

\* C24 witness: after a quieter block a full-scale block brought the
\* Energy Sample to 1
C24_Witness ==
  tapCount >= 2 /\ volume = EnergyOne

(* ------------------------- Signal Framer alone ------------------------- *)
\* createPcmBlob (called at line 151) and its inverse, after section 4.1 of
\* the specification.  A sample is [nan |-> TRUE, v |-> 0] or a number v in
\* units of 1 / (SubLsb * FullScale): FullScale * SubLsb stands for 1.0 and
\* SubLsb units are one step (LSB) of the 16-bit scale.
FullScale == 32768
SubLsb == 4
MaxBlock == 2
One == FullScale * SubLsb

Sample(v) == [nan |-> FALSE, v |-> v]
NaN == [nan |-> TRUE, v |-> 0]

\* conversion of a number to an Int16Array element: the fraction is cut off
Trunc(n, d) == IF n >= 0 THEN n \div d ELSE -((-n) \div d)

\* clamp to the 16-bit range
Clamp16(i) ==
  IF i > FullScale - 1 THEN FullScale - 1
  ELSE IF i < -FullScale THEN -FullScale ELSE i

\* variant of ToInt16: the scaled value is stored unclamped and wraps
\* around in the 16-bit element
ToInt16_Wrap(x) ==
  IF x.nan THEN 0
  ELSE ((Trunc(x.v, SubLsb) + FullScale) % (2 * FullScale)) - FullScale

\* one sample to 16-bit signed: NaN becomes 0, the sample is scaled by
\* FullScale and clamped
ToInt16(x) == IF x.nan THEN 0 ELSE Clamp16(Trunc(x.v, SubLsb))

\* the two bytes of a 16-bit signed integer, low byte first
BytesLE(i) ==
  LET u == (i + 2 * FullScale) % (2 * FullScale) IN <<u % 256, u \div 256>>

RECURSIVE PackLE(_)
PackLE(ints) ==
  IF ints = <<>> THEN <<>> ELSE BytesLE(Head(ints)) \o PackLE(Tail(ints))

\* base64: a text is a sequence of digit values 0..63, 64 is the padding '='
RECURSIVE Base64Encode(_)
Base64Encode(b) ==
  IF Len(b) = 0 THEN <<>>
  ELSE IF Len(b) = 1
  THEN <<b[1] \div 4, (b[1] % 4) * 16, 64, 64>>
  ELSE IF Len(b) = 2
  THEN <<b[1] \div 4, (b[1] % 4) * 16 + b[2] \div 16, (b[2] % 16) * 4, 64>>
  ELSE <<b[1] \div 4, (b[1] % 4) * 16 + b[2] \div 16,
         (b[2] % 16) * 4 + b[3] \div 64, b[3] % 64>>
       \o Base64Encode(SubSeq(b, 4, Len(b)))

RECURSIVE Base64Decode(_)
Base64Decode(t) ==
  IF Len(t) = 0 THEN <<>>
  ELSE LET b1 == t[1] * 4 + t[2] \div 16
           b2 == (t[2] % 16) * 16 + t[3] \div 4
           b3 == (t[3] % 4) * 64 + t[4]
       IN IF t[3] = 64 THEN <<b1>>
          ELSE IF t[4] = 64 THEN <<b1, b2>>
          ELSE <<b1, b2, b3>> \o Base64Decode(SubSeq(t, 5, Len(t)))

\* frame(samples): quantize, pack little-endian, base64-encode
createPcmBlob(block) ==
  Base64Encode(PackLE([i \in DOMAIN block |-> ToInt16(block[i])]))

\* 16-bit signed integers out of little-endian bytes
RECURSIVE UnpackLE(_)
UnpackLE(b) ==
  IF Len(b) < 2 THEN <<>>
  ELSE LET u == b[1] + 256 * b[2]
       IN <<IF u >= FullScale THEN u - 2 * FullScale ELSE u>>
          \o UnpackLE(SubSeq(b, 3, Len(b)))

\* decoding back: the 16-bit samples of a payload, each i standing for the
\* sample i / FullScale
decodePcm(payload) == UnpackLE(Base64Decode(payload))

\* the samples tried: around -1, 0, a value inside the range and 1, far
\* outside the range on both sides, and NaN
Near(c) == (c - 5)..(c + 5)
SampleSet ==
  {Sample(v) : v \in Near(-One) \cup Near(0) \cup Near(12345) \cup Near(One)
                      \cup {-3 * One, 3 * One}}
  \cup {NaN}
FillSet == {NaN, Sample(One), Sample(-1)}

RECURSIVE Fills(_)
Fills(n) ==
  IF n = 0 THEN {<<>>}
  ELSE Fills(n - 1) \cup {<<x>> \o t : x \in FillSet, t \in Fills(n - 1)}

\* blocks of 1..MaxBlock samples
Blocks == {<<x>> \o t : x \in SampleSet, t \in Fills(MaxBlock - 1)}

FramerInit ==
  /\ InitRefs /\ volume = 0 /\ vis = VisMounted
  /\ chat = ChatIdle /\ studio = StudioIdle
  /\ framer \in {[pc |-> "block", block |-> b, payload |-> <<>>,
                  out |-> <<>>] : b \in Blocks}

\* the framer is applied to the block
Frame ==
  /\ framer.pc = "block"
  /\ framer' = [framer EXCEPT !.pc = "framed",
                              !.payload = createPcmBlob(framer.block)]
  /\ UNCHANGED <<liveVars, vis, chat, studio>>

\* the payload is decoded back
Unframe ==
  /\ framer.pc = "framed"
  /\ framer' = [framer EXCEPT !.pc = "decoded",
                              !.out = decodePcm(framer.payload)]
  /\ UNCHANGED <<liveVars, vis, chat, studio>>

FramerNext == Frame \/ Unframe

SpecFramer == FramerInit /\ [][FramerNext]_vars

Abs(n) == IF n >= 0 THEN n ELSE -n

\* the sample a block element stands for once NaN is read as 0 and the
\* rest is clamped to [-1, 1]
Clamped(x) ==
  IF x.nan THEN 0
  ELSE IF x.v > One THEN One ELSE IF x.v < -One THEN -One ELSE x.v

\* C17: a block framed and decoded back has as many samples as before,
\* each within one LSB of the original when that lies in [-1, 1], of the
\* clamped value when it lies outside, and of 0 when it is NaN.
C17_FramerRoundTrip ==
  framer.pc = "decoded" =>
     /\ Len(framer.out) = Len(framer.block)
     /\ \A i \in DOMAIN framer.block :
           Abs(framer.out[i] * SubLsb - Clamped(framer.block[i])) <= SubLsb

\* C17 witness: a block of two samples, the first 1.0 and the second NaN,
\* went through the framer and back
C17_Witness ==
  /\ framer.pc = "decoded"
  /\ framer.block = <<Sample(One), NaN>>
  /\ framer.out = <<FullScale - 1, 0>>

(* ------------------------- a second session ---------------------------- *)
\* every event of LiveAgent, explored from the state in which session 1 is
\* already Active (PlayInit), so that a whole second session fits
SpecRestart == PlayInit /\ [][Next]_vars

\* the source at position i is the first one started for its session, and
\* its chunk is the first audio chunk that session's channel delivered
FirstOfSession(i) ==
  /\ \A m \in DOMAIN sched : sched[m].sess = sched[i].sess => m >= i
  /\ \A h \in handlers : h.sess = sched[i].sess => h.id > sched[i].id
  /\ sched[i].ctx = sched[i].sess

\* C21: in a session started after an earlier one was torn down, the first
\* chunk is started at the time of the new output clock (as read when the
\* chunk arrived or when the source is started).
C21_FreshPlayback ==
  \A i \in DOMAIN sched :
     ( /\ FirstOfSession(i)
       /\ \E k \in Sessions : StartedAfterTeardown(k, sched[i].sess) )
     => sched[i].start \in {sched[i].arr, sched[i].at}

(* ------------------------- visualizer alone ---------------------------- *)
\* the repaint loop of lines 27-76 under any change of volume and
\* connected: a change commits a render, after which React runs the
\* cleanup of the effect and the effect again; unmounting runs the cleanup
MaxPaints == 3
MaxCommits == 3

\* variant of VisCleanup: the id of the first request is cancelled, not the
\* latest one
VisCleanup_First(v) == {f \in v.pending : f.id # v.firstId}

\* the cleanup of the effect, line 75: cancelAnimationFrame(animationFrameId)
VisCleanup(v) == {f \in v.pending : f.id # v.frameId}

\* setVolume / setConnected changed a dependency of the effect
VisCommit(v, c) ==
  /\ mounted
  /\ vis.commits < MaxCommits
  /\ <<v, c>> # <<volume, connected>>
  /\ volume' = v
  /\ connected' = c
  /\ vis' = [vis EXCEPT !.dirty = TRUE, !.commits = @ + 1]
  /\ UNCHANGED <<mounted, error, audioContextRef, inputContextRef, streamRef,
                 processorRef, sourceRef, activeSourcesRef,
                 sessionPromiseRef, pc, outputNode, chan, promise,
                 ctxOutClosed, ctxInClosed, clock, stream, tapState, tapCtx,
                 sent, pendingThen, sched, thrown, steps, framer, chat,
                 studio, tapCount>>
  /\ UNCHANGED playVars

\* the effect is run again: cleanup of the old run, then render() of the
\* new one, which paints and requests a frame (lines 30-72)
VisFlush ==
  /\ mounted
  /\ vis.dirty
  /\ vis' = [vis EXCEPT
               !.pending = VisCleanup(vis)
                             \cup {[id |-> vis.nextId, eff |-> vis.eff + 1]},
               !.frameId = vis.nextId,
               !.firstId = vis.nextId,
               !.nextId = @ + 1,
               !.eff = @ + 1,
               !.dirty = FALSE]
  /\ UNCHANGED <<liveVars, framer, chat, studio>>

\* the browser runs the pending frame f: render() of the run of the effect
\* that requested it, lines 30-72.  It returns early without a canvas
\* (after unmount), else paints and requests the next frame.
Repaint(f) ==
  /\ f \in vis.pending
  /\ vis.paints < MaxPaints
  /\ IF ~mounted
     THEN vis' = [vis EXCEPT !.pending = @ \ {f}, !.paints = @ + 1]
     ELSE vis' = [vis EXCEPT
                    !.pending = (@ \ {f})
                                  \cup {[id |-> vis.nextId, eff |-> f.eff]},
                    !.frameId = IF f.eff = vis.eff THEN vis.nextId ELSE @,
                    !.nextId = @ + 1,
                    !.paints = @ + 1]
  /\ UNCHANGED <<liveVars, framer, chat, studio>>

\* LiveAgent is unmounted: the cleanup of the visualizer effect (line 75)
\* and that of lines 216-220 (stopAudio) run
VisUnmount ==
  /\ mounted
  /\ mounted' = FALSE
  /\ vis' = [vis EXCEPT !.pending = VisCleanup(vis), !.dirty = FALSE]
  /\ volume' = 0
  /\ connected' = FALSE
  /\ UNCHANGED <<error, audioContextRef, inputContextRef, streamRef,
                 processorRef, sourceRef, activeSourcesRef,
                 sessionPromiseRef, pc, outputNode, chan, promise,
                 ctxOutClosed, ctxInClosed, clock, stream, tapState, tapCtx,
                 sent, pendingThen, sched, thrown, steps, framer, chat,
                 studio, tapCount>>
  /\ UNCHANGED playVars

VisNext ==
  \/ \E v \in {0, EnergyOne \div 2, EnergyOne}, c \in BOOLEAN : VisCommit(v, c)
  \/ VisFlush
  \/ \E f \in vis.pending : Repaint(f)
  \/ VisUnmount

SpecVisual == Init /\ [][VisNext]_vars

\* C25: a repaint changes nothing of the session nor the Energy Sample; at
\* most one repaint callback is pending at any time; while LiveAgent is
\* mounted one is pending whatever the session state; after the unmount
\* none is pending.
C25_RepaintLoop ==
  /\ [][(\E f \in vis.pending : Repaint(f)) => UNCHANGED liveVars]_vars
  /\ [](Cardinality(vis.pending) <= 1)
  /\ [](mounted => vis.pending # {})
  /\ [](~mounted => vis.pending = {})

\* C25 witness: the effect was run again after a change, its frames were
\* painted on both sides of that, and the view was unmounted
C25_Witness ==
  /\ ~mounted
  /\ vis.eff >= 2
  /\ vis.paints >= 2
  /\ vis.nextId > vis.eff + 1
  /\ vis.pending = {}

(* ------------------------- ChatAgent alone ------------------------------ *)
\* ChatAgent.tsx.  chat.pc is the position of the one handleSend invocation
\* that may be running: "connecting" at the await of line 64, "streaming"
\* in the for-await loop of lines 77-91.  chat.now is Date.now().
MaxChats == 2
MaxChunks == 2
MaxNow == 5
MaxLatency == 2

\* what can be typed: nothing, white space, a word
ChatInputs == {"", " ", "hi"}

\* !input.trim(), line 24
Blank(s) == s \in {"", " "}

\* the texts of the chunks of a stream; <<>> is a chunk without text
ChunkTexts == {<<>>, <<"a">>, <<"b">>}

ChatFrozen == UNCHANGED <<liveVars, framer, vis, studio>>

\* onChange of the input (line 169), which is disabled while loading
\* (line 173)
ChatType(s) ==
  /\ ~chat.loading
  /\ s # chat.input
  /\ chat' = [chat EXCEPT !.input = s]
  /\ ChatFrozen

\* the clock of Date.now() advances
ChatTick ==
  /\ chat.now < MaxNow
  /\ chat' = [chat EXCEPT !.now = @ + 1]
  /\ ChatFrozen

\* the error message of the catch block, lines 93-100
ErrorMsg(now) == [id |-> now, role |-> "model", text |-> <<"error">>]

\* handleSend up to its first await, lines 23-64: the guard of line 24, the
\* user message (lines 26-33), setInput('') and setLoading(true)
handleSend ==
  /\ chat.sends < MaxChats
  /\ IF Blank(chat.input) \/ chat.loading
     THEN chat' = chat
     ELSE chat' = [chat EXCEPT
                     !.messages = Append(@, [id |-> chat.now, role |-> "user",
                                             text |-> <<chat.input>>]),
                     !.input = "",
                     !.loading = TRUE,
                     !.pc = "connecting",
                     !.sends = @ + 1,
                     !.chunks = 0]
  /\ ChatFrozen

\* building the request throws, or sendMessageStream rejects (lines 37-64):
\* catch and finally, lines 93-103.  The first happens at once (d = 0), the
\* second after a round trip.
SendFails(d) ==
  /\ chat.pc = "connecting"
  /\ chat.now + d <= MaxNow
  /\ chat' = [chat EXCEPT
                !.now = @ + d,
                !.messages = Append(@, ErrorMsg(chat.now + d)),
                !.loading = FALSE,
                !.pc = "idle"]
  /\ ChatFrozen

\* sendMessageStream resolves after a round trip of d >= 1 ms: responseId
\* and the placeholder, lines 66-75
StreamOpens(d) ==
  /\ chat.pc = "connecting"
  /\ chat.now + d <= MaxNow
  /\ chat' = [chat EXCEPT
                !.now = @ + d,
                !.responseId = chat.now + d + 1,
                !.fullResponse = <<>>,
                !.messages = Append(@, [id |-> chat.now + d + 1,
                                        role |-> "model", text |-> <<>>]),
                !.pc = "streaming"]
  /\ ChatFrozen

\* prev.map(m => m.id === responseId ? {...m, text: fullResponse} : m),
\* lines 81-87
SetText(msgs, rid, full) ==
  [i \in DOMAIN msgs |->
     IF msgs[i].id = rid THEN [msgs[i] EXCEPT !.text = full] ELSE msgs[i]]

\* one chunk of the stream, lines 77-91
Chunk(t) ==
  /\ chat.pc = "streaming"
  /\ chat.chunks < MaxChunks
  /\ IF t = <<>>
     THEN chat' = [chat EXCEPT !.chunks = @ + 1]
     ELSE chat' = [chat EXCEPT
                     !.chunks = @ + 1,
                     !.fullResponse = @ \o t,
                     !.messages = SetText(@, chat.responseId,
                                          chat.fullResponse \o t)]
  /\ ChatFrozen

\* the stream ends: finally, lines 101-103
StreamEnds ==
  /\ chat.pc = "streaming"
  /\ chat' = [chat EXCEPT !.loading = FALSE, !.pc = "idle"]
  /\ ChatFrozen

\* the stream fails after it was opened: catch and finally, lines 93-103
StreamFails ==
  /\ chat.pc = "streaming"
  /\ chat' = [chat EXCEPT
                !.messages = Append(@, ErrorMsg(chat.now)),
                !.loading = FALSE,
                !.pc = "idle"]
  /\ ChatFrozen

ChatNext ==
  \/ \E s \in ChatInputs : ChatType(s)
  \/ ChatTick
  \/ handleSend
  \/ \E d \in 0..1 : SendFails(d)
  \/ \E d \in 1..MaxLatency : StreamOpens(d)
  \/ \E t \in ChunkTexts : Chunk(t)
  \/ StreamEnds
  \/ StreamFails

SpecChat == Init /\ [][ChatNext]_vars

\* the index of the last user message of the list, 0 if there is none
LastUser(msgs) ==
  LET us == {i \in DOMAIN msgs : msgs[i].role = "user"}
  IN IF us = {} THEN 0 ELSE CHOOSE i \in us : \A j \in us : j <= i

\* what was added to the list for the last request, after its user message
Reply(msgs) == SubSeq(msgs, LastUser(msgs) + 1, Len(msgs))

\* a blank or loading handleSend changes nothing
C27_GuardedSend ==
  [][(handleSend /\ (chat.loading \/ Blank(chat.input))) => chat' = chat]_vars

\* loading is true exactly while a request is in flight
C27_LoadingIffInFlight == chat.loading <=> chat.pc # "idle"

\* the list only grows, and a step changes at most the text of the
\* placeholder of the request in flight, which is the last of the list
C27_OnlyGrows ==
  [][/\ Len(chat'.messages) >= Len(chat.messages)
     /\ \A i \in DOMAIN chat.messages :
          \/ chat'.messages[i] = chat.messages[i]
          \/ /\ chat.pc = "streaming"
             /\ i = Len(chat.messages)
             /\ chat.messages[i].id = chat.responseId
             /\ chat'.messages[i]
                  = [chat.messages[i] EXCEPT !.text = chat'.messages[i].text]
  ]_vars

\* a request adds its user message and then one message of the model
C27_OneReply ==
  LastUser(chat.messages) # 0
    => /\ Len(Reply(chat.messages)) <= 1
       /\ chat.pc = "idle" => Len(Reply(chat.messages)) = 1

\* C27: chat send is single-flight.  handleSend does nothing while a
\* request is loading or when the input is blank; loading is true exactly
\* while a request is in flight and is false again when the stream completes
\* or fails; the message list only grows, by the user message and then one
\* placeholder of the model or one error message; a streaming update changes
\* only the text of the placeholder of its request.
C27_SingleFlight ==
  /\ C27_GuardedSend
  /\ []C27_LoadingIffInFlight
  /\ C27_OnlyGrows
  /\ []C27_OneReply

(* ------------------------- CreativeStudio alone ------------------------- *)
\* CreativeStudio.tsx.  studio.pc is the await at which the one running
\* handleGenerate invocation waits: "ensureKey" (line 48 or 84), "selectKey"
\* (line 30), "generate" (line 52 or 88), "poll" (lines 99-100), "fetch"
\* (lines 106-107), "reselect" (line 40).  studio.op is what is known of the
\* remote video operation, studio.aistudio whether window.aistudio exists
\* and studio.hasKey what its hasSelectedApiKey answers.
MaxRuns == 2
MaxPolls == 2

Prompts == {"", "cat"}
Tools == {"IMAGE_GEN", "VIDEO_GEN"}

NotFoundText == "Requested entity was not found"

\* what a failing call throws: an error with a message, whose serialised
\* form may hold the text "not found" as well
Errors == {[message |-> m, body |-> b] :
             m \in {"", "boom", NotFoundText}, b \in BOOLEAN}

Err(m) == [message |-> m, body |-> FALSE]

StudioFrozen == UNCHANGED <<liveVars, framer, vis, chat>>

\* the outer catch, lines 119-121
Caught_Rethrow(st, e) == [st EXCEPT !.pc = "idle"]
Caught(st, e) ==
  [st EXCEPT !.pc = "idle",
             !.result = [type |-> "text", loading |-> FALSE, url |-> None,
                         error |-> IF e.message = ""
                                   THEN "Generation failed"
                                   ELSE e.message]]

\* handleApiError, lines 36-45, called by the inner catch blocks; what it
\* throws reaches the outer catch
handleApiError(st, e) ==
  IF (e.message = NotFoundText \/ e.body) /\ st.aistudio
  THEN [st EXCEPT !.pc = "reselect"]
  ELSE Caught(st, e)

\* setResult({type, loading: false, url}), lines 71 and 110
Done(st, type, url) ==
  [st EXCEPT !.pc = "idle",
             !.result = [type |-> type, loading |-> FALSE, url |-> url,
                         error |-> None]]

\* the loop of lines 98-101 was left with a finished operation: lines 103-113
AfterPoll(st, link) ==
  IF link THEN [st EXCEPT !.pc = "fetch"]
  ELSE handleApiError(st, Err("Video generation failed."))

\* onChange of the prompt, line 162
SetPrompt(p) ==
  /\ p # studio.prompt
  /\ studio' = [studio EXCEPT !.prompt = p]
  /\ StudioFrozen

\* the tool buttons, lines 131 and 138
SetActiveTool(t) ==
  /\ t # studio.activeTool
  /\ studio' = [studio EXCEPT !.activeTool = t]
  /\ StudioFrozen

\* handleGenerate up to its first await, lines 18-48 / 84; its button is
\* disabled while the result is loading (line 205)
handleGenerate ==
  /\ ~studio.result.loading
  /\ studio.runs < MaxRuns
  /\ IF studio.prompt = ""
     THEN studio' = studio
     ELSE studio' = [studio EXCEPT
                       !.result = [type |-> IF studio.activeTool = "VIDEO_GEN"
                                            THEN "video" ELSE "image",
                                   loading |-> TRUE, url |-> None,
                                   error |-> None],
                       !.tool = studio.activeTool,
                       !.op = "none",
                       !.polls = 0,
                       !.runs = @ + 1,
                       !.pc = "ensureKey"]
  /\ StudioFrozen

\* ensureApiKey, lines 26-33: hasSelectedApiKey answers, or there is no
\* window.aistudio to ask
KeyChecked ==
  /\ studio.pc = "ensureKey"
  /\ studio' = [studio EXCEPT !.pc = IF studio.aistudio /\ ~studio.hasKey
                                     THEN "selectKey" ELSE "generate"]
  /\ StudioFrozen

\* openSelectKey of line 30 resolves, with a key selected or not
KeySelected(k) ==
  /\ studio.pc = "selectKey"
  /\ studio' = [studio EXCEPT !.pc = "generate", !.hasKey = k]
  /\ StudioFrozen

\* ensureApiKey rejects, or the constructor of line 49 / 85 throws: both are
\* outside the inner try
SetupFails(e) ==
  /\ \/ studio.pc = "ensureKey"
     \/ studio.pc = "selectKey"
  /\ studio' = Caught(studio, e)
  /\ StudioFrozen

\* generateContent (line 52) or generateVideos (line 88) resolves; ok is
\* foundImage, or operation.done
Generated(ok, link) ==
  /\ studio.pc = "generate"
  /\ studio' =
       IF studio.tool = "IMAGE_GEN"
       THEN IF ok THEN Done(studio, "image", "data:image")
            ELSE handleApiError(studio, Err("No image generated."))
       ELSE IF ok THEN AfterPoll([studio EXCEPT !.op = "done"], link)
            ELSE [studio EXCEPT !.op = "running", !.pc = "poll"]
  /\ StudioFrozen

\* one round of the loop of lines 98-101: the timeout, then
\* getVideosOperation resolves
Polled(done, link) ==
  /\ studio.pc = "poll"
  /\ studio.polls < MaxPolls
  /\ studio' =
       IF done
       THEN AfterPoll([studio EXCEPT !.op = "done", !.polls = @ + 1], link)
       ELSE [studio EXCEPT !.polls = @ + 1]
  /\ StudioFrozen

\* fetch and blob resolve, lines 106-110
Fetched ==
  /\ studio.pc = "fetch"
  /\ studio' = Done(studio, "video", "blob:video")
  /\ StudioFrozen

\* a call inside one of the inner try blocks fails: lines 76-78, 114-116
CallFails(e) ==
  /\ studio.pc \in {"generate", "poll", "fetch"}
  /\ studio' = handleApiError(
                 [studio EXCEPT !.op = IF studio.pc = "poll"
                                       THEN "failed" ELSE @], e)
  /\ StudioFrozen

\* openSelectKey of line 40 resolves, with a key selected or not: line 41
\* throws
Reselected(k) ==
  /\ studio.pc = "reselect"
  /\ studio' = Caught([studio EXCEPT !.hasKey = k],
                      Err("Project not found or API key invalid."))
  /\ StudioFrozen

\* openSelectKey of line 40 rejects
ReselectFails(e) ==
  /\ studio.pc = "reselect"
  /\ studio' = Caught(studio, e)
  /\ StudioFrozen

\* window.aistudio is there or not
StudioInit ==
  /\ InitRefs /\ volume = 0
  /\ framer = FramerIdle /\ vis = VisMounted /\ chat = ChatIdle
  /\ studio \in {[StudioIdle EXCEPT !.aistudio = b[1], !.hasKey = b[2]] :
                   b \in {<<FALSE, FALSE>>, <<TRUE, FALSE>>, <<TRUE, TRUE>>}}

StudioNext ==
  \/ \E p \in Prompts : SetPrompt(p)
  \/ \E t \in Tools : SetActiveTool(t)
  \/ handleGenerate
  \/ KeyChecked
  \/ \E k \in BOOLEAN : KeySelected(k)
  \/ \E e \in Errors : SetupFails(e)
  \/ \E ok, link \in BOOLEAN : Generated(ok, link)
  \/ \E done, link \in BOOLEAN : Polled(done, link)
  \/ Fetched
  \/ \E e \in Errors : CallFails(e)
  \/ \E k \in BOOLEAN : Reselected(k)
  \/ \E e \in Errors : ReselectFails(e)

SpecStudio == StudioInit /\ [][StudioNext]_vars

\* an invocation that finishes leaves loading false and exactly one of a
\* url or an error message
C28_Finish ==
  [][(studio.pc # "idle" /\ studio'.pc = "idle")
       => /\ ~studio'.result.loading
          /\ (studio'.result.url # None) # (studio'.result.error # None)
    ]_vars

\* loading is true only while an invocation runs
C28_LoadingOnlyRunning == studio.result.loading => studio.pc # "idle"

\* the loop is left by a finished operation, or by a failing call
C28_PollUntilDone ==
  [][(studio.pc = "poll" /\ studio'.pc # "poll")
       => studio'.op \in {"done", "failed"}]_vars

\* the video is fetched only of a finished operation
C28_FetchOfDone == studio.pc = "fetch" => studio.op = "done"

\* C28: every handleGenerate invocation that finishes leaves the result
\* with loading false and exactly one of a media url or an error message
\* set: no path leaves loading true, and every failure, an API-key error
\* included, becomes an error result instead of being thrown; the video poll
\* loop ends only when the remote operation reports done.
C28_GenerateSettles ==
  /\ C28_Finish
  /\ []C28_LoadingOnlyRunning
  /\ C28_PollUntilDone
  /\ []C28_FetchOfDone

\* a second invocation ended with a video after polling, on a host that
\* asked for a key
C28_Witness ==
  /\ studio.pc = "idle" /\ studio.runs = MaxRuns /\ studio.aistudio
  /\ studio.polls >= 1 /\ studio.op = "done"
  /\ studio.result.url = "blob:video" /\ ~studio.result.loading

====
